---- MODULE Spec2Model ----
(***************************************************************************)
(* Model of the flashcard backend (app.py): a Flask application with two   *)
(* routes, GET /health and POST /generate, three error handlers, and one   *)
(* synchronous outbound call to the OpenAI chat-completion client.         *)
(*                                                                         *)
(* JSON values are records tagged by `ty`.  A free-text string (a prompt,  *)
(* a message content) is kept by its whitespace shape: `lead` whitespace   *)
(* characters, `core` characters that start and end with a non-whitespace  *)
(* character, `trail` whitespace characters.  A whitespace-only string has *)
(* core = 0.  An identifier-like string (a model name) is kept literally.  *)
(* A number is an `int` (n) or a `float` (x10, the value in tenths), as    *)
(* Python's json module tells them apart.                                  *)
(***************************************************************************)
EXTENDS Integers, Sequences, FiniteSets, TLC

VARIABLES
    pc,        \* "idle", "upstream" (waiting for the outbound call) or "done"
    req,       \* the request being served
    calls,     \* the outbound calls made for it, in order
    outcomes,  \* what each finished outbound call returned or raised
    resps,     \* the responses produced for it
    workers    \* the threads of the server, each with a request of its own

vars == <<pc, req, calls, outcomes, resps, workers>>

----------------------------------------------------------------------------
(* Bounds of the model *)

\* Longest `messages` list a request carries.
MaxMsgs == 2

\* Requests the server handles at the same time.
NumWorkers == 2

(* Program constants *)

MaxPromptLen == 4000
MaxMaxTokens == 4000
DefaultMaxTokens == 1000
DefaultTemperatureX10 == 7
MaxTemperatureX10 == 20

----------------------------------------------------------------------------
(* JSON values as Python sees them after request.get_json() *)

Absent == [ty |-> "absent"]
Malformed == [ty |-> "malformed"]
JNull == [ty |-> "null"]
JBool(b) == [ty |-> "bool", b |-> b]
JInt(n) == [ty |-> "int", n |-> n]
JFloat(x) == [ty |-> "float", x10 |-> x]
Text(l, c, t) == [ty |-> "str", lead |-> l, core |-> c, trail |-> t]
Name(s) == [ty |-> "str", s |-> s]
JArr(n) == [ty |-> "arr", n |-> n]
JList(items) == [ty |-> "arr", items |-> items]
JDict(n) == [ty |-> "obj", n |-> n]

\* One element of a `messages` list that is a dict; a missing key is Absent
Msg(role, content, prompt) ==
    [ty |-> "obj", role |-> role, content |-> content, prompt |-> prompt]

\* A request body that is a dict; a missing key is Absent
Body(prompt, messages, model, max_tokens, temperature) ==
    [ty |-> "obj", prompt |-> prompt, messages |-> messages, model |-> model,
     max_tokens |-> max_tokens, temperature |-> temperature]

\* A request body that is a str or a list: `has` are the keys that `in` finds in it
BodyStr(has) == [ty |-> "str", has |-> has]
BodyList(has) == [ty |-> "arr", has |-> has]

\* len(s) of a free-text string
StrLen(s) == s.lead + s.core + s.trail

\* s.strip(): leading and trailing whitespace removed
Strip(s) == IF s.core = 0 THEN Text(0, 0, 0) ELSE Text(0, s.core, 0)

\* Python truth value of a JSON value (`not v` is ~Truthy(v))
Truthy(v) ==
    CASE v.ty = "null" -> FALSE
      [] v.ty = "bool" -> v.b
      [] v.ty = "int" -> v.n # 0
      [] v.ty = "float" -> v.x10 # 0
      [] v.ty = "str" -> IF "s" \in DOMAIN v THEN TRUE ELSE StrLen(v) > 0
      [] v.ty = "arr" -> IF "items" \in DOMAIN v THEN Len(v.items) > 0
                         ELSE IF "has" \in DOMAIN v THEN v.has # {}
                         ELSE v.n > 0
      [] v.ty = "obj" -> IF "n" \in DOMAIN v THEN v.n > 0 ELSE TRUE

\* The value of a bool, int or float in tenths (True is 1, False is 0)
NumX10(v) ==
    CASE v.ty = "bool" -> IF v.b THEN 10 ELSE 0
      [] v.ty = "int" -> v.n * 10
      [] v.ty = "float" -> v.x10

\* isinstance(v, int): bool is a subclass of int
IsInt(v) == v.ty \in {"int", "bool"}

\* isinstance(v, (int, float))
IsNumber(v) == v.ty \in {"int", "bool", "float"}

\* isinstance(v, list)
IsList(v) == v.ty = "arr"

\* Whether `key in data` can be evaluated (a str, list or dict) or raises TypeError
SupportsIn(data) == data.ty \in {"str", "arr", "obj"}

\* `key in data`: a key of a dict, an element of a list, a substring of a str
Contains(key, data) ==
    IF data.ty = "obj" THEN data[key] # Absent ELSE key \in data.has

\* data.get(key, default)
Get(data, key, default) == IF data[key] = Absent THEN default ELSE data[key]

----------------------------------------------------------------------------
(* Responses: jsonify(body), status *)

Response(st, fn, b) == [status |-> st, by |-> fn, body |-> b]

\* Mutant of Failure: the error body is built without its `success` key
Failure_NoSuccess(st, msg) ==
    Response(st, "generate_flashcards", [error |-> msg])

\* jsonify({'success': False, 'error': msg}), status  -- as generate_flashcards builds it
Failure(st, msg) ==
    Response(st, "generate_flashcards", [success |-> FALSE, error |-> msg])

----------------------------------------------------------------------------
(* Exceptions: the classes that can arise, with their base classes *)

\* The direct base class of each exception class (openai, werkzeug, builtins)
BaseClass ==
    [RateLimitError |-> "APIStatusError",
     AuthenticationError |-> "APIStatusError",
     BadRequestError |-> "APIStatusError",
     InternalServerError |-> "APIStatusError",
     APIStatusError |-> "APIError",
     APITimeoutError |-> "APIConnectionError",
     APIConnectionError |-> "APIError",
     APIError |-> "OpenAIError",
     OpenAIError |-> "Exception",
     BadRequest |-> "HTTPException",
     HTTPException |-> "Exception",
     TypeError |-> "Exception",
     AttributeError |-> "Exception",
     IndexError |-> "Exception",
     RuntimeError |-> "Exception",
     Exception |-> "BaseException"]

RECURSIVE IsInstance(_, _)
\* isinstance(e, cls) for an exception of class e
IsInstance(e, cls) ==
    IF e = cls THEN TRUE
    ELSE IF e \in DOMAIN BaseClass THEN IsInstance(BaseClass[e], cls)
    ELSE FALSE

\* Mutant of ExceptClauses: the generic OpenAIError clause comes first
ExceptClauses_GenericFirst ==
    << [cls |-> "OpenAIError",
        resp |-> Response(500, "generate_flashcards",
                          [success |-> FALSE, error |-> "OpenAI API error"])],
       [cls |-> "RateLimitError",
        resp |-> Response(429, "generate_flashcards",
                          [success |-> FALSE,
                           error |-> "Rate limit exceeded. Please try again later."])],
       [cls |-> "AuthenticationError",
        resp |-> Response(401, "generate_flashcards",
                          [success |-> FALSE, error |-> "Authentication failed"])],
       [cls |-> "BadRequestError",
        resp |-> Response(400, "generate_flashcards",
                          [success |-> FALSE, error |-> "Invalid request to OpenAI API"])],
       [cls |-> "Exception",
        resp |-> Response(500, "generate_flashcards",
                          [success |-> FALSE, error |-> "Internal server error"])] >>

\* Mutant of ExceptClauses: the generic OpenAIError clause is missing
ExceptClauses_NoOpenAIError ==
    << [cls |-> "RateLimitError",
        resp |-> Response(429, "generate_flashcards",
                          [success |-> FALSE,
                           error |-> "Rate limit exceeded. Please try again later."])],
       [cls |-> "AuthenticationError",
        resp |-> Response(401, "generate_flashcards",
                          [success |-> FALSE, error |-> "Authentication failed"])],
       [cls |-> "BadRequestError",
        resp |-> Response(400, "generate_flashcards",
                          [success |-> FALSE, error |-> "Invalid request to OpenAI API"])],
       [cls |-> "Exception",
        resp |-> Response(500, "generate_flashcards",
                          [success |-> FALSE, error |-> "Internal server error"])] >>

\* Mutant of ExceptClauses: the final `except Exception` clause is missing
ExceptClauses_NoCatchAll ==
    << [cls |-> "RateLimitError",
        resp |-> Response(429, "generate_flashcards",
                          [success |-> FALSE,
                           error |-> "Rate limit exceeded. Please try again later."])],
       [cls |-> "AuthenticationError",
        resp |-> Response(401, "generate_flashcards",
                          [success |-> FALSE, error |-> "Authentication failed"])],
       [cls |-> "BadRequestError",
        resp |-> Response(400, "generate_flashcards",
                          [success |-> FALSE, error |-> "Invalid request to OpenAI API"])],
       [cls |-> "OpenAIError",
        resp |-> Response(500, "generate_flashcards",
                          [success |-> FALSE, error |-> "OpenAI API error"])] >>

\* The except clauses of generate_flashcards, in their order
ExceptClauses ==
    << [cls |-> "RateLimitError",
        resp |-> Failure(429, "Rate limit exceeded. Please try again later.")],
       [cls |-> "AuthenticationError",
        resp |-> Failure(401, "Authentication failed")],
       [cls |-> "BadRequestError",
        resp |-> Failure(400, "Invalid request to OpenAI API")],
       [cls |-> "OpenAIError",
        resp |-> Failure(500, "OpenAI API error")],
       [cls |-> "Exception",
        resp |-> Failure(500, "Internal server error")] >>

\* The clauses that match an exception of class e
Matching(e) == {i \in 1..Len(ExceptClauses) : IsInstance(e, ExceptClauses[i].cls)}

\* Whether some except clause catches e
Caught(e) == Matching(e) # {}

\* The response of the first except clause that matches e
Catch(e) ==
    LET i == CHOOSE j \in Matching(e) : \A k \in Matching(e) : j <= k
    IN ExceptClauses[i].resp

----------------------------------------------------------------------------
(* Error handlers registered on the app *)

not_found == Response(404, "not_found", [error |-> "Endpoint not found"])

method_not_allowed ==
    Response(405, "method_not_allowed", [error |-> "Method not allowed"])

internal_error ==
    Response(500, "internal_error", [error |-> "Internal server error"])

\* What Flask answers when a view raises e and nothing in the view catches it:
\* an HTTPException without a registered handler is its own response, anything
\* else goes to the 500 handler.
Unhandled(e) ==
    IF IsInstance(e, "HTTPException")
    THEN Response(400, "werkzeug", [html |-> "Bad Request"])
    ELSE internal_error

----------------------------------------------------------------------------
(* Steps of a view: it returns a response, raises, or is waiting for the   *)
(* outbound call it has issued.  `issued` are the outbound calls made in   *)
(* the step.                                                               *)

Return(r) == [next |-> "return", issued |-> <<>>, resp |-> r]
Raise(e) == [next |-> "raise", issued |-> <<>>, exc |-> e]
Await(call) == [next |-> "await", issued |-> <<call>>]

----------------------------------------------------------------------------
(* generate_flashcards: from the request to the outbound call *)

valid_models ==
    {Name("gpt-3.5-turbo"), Name("gpt-4"), Name("gpt-4-turbo-preview"),
     Name("gpt-3.5-turbo-16k")}

\* Mutant of ValidatedModel: the requested model is passed on unchecked
ValidatedModel_PassThrough(data) == Get(data, "model", Name("gpt-3.5-turbo"))

\* model = data.get('model', 'gpt-3.5-turbo'), replaced when not allow-listed
ValidatedModel(data) ==
    LET model == Get(data, "model", Name("gpt-3.5-turbo"))
    IN IF model \notin valid_models THEN Name("gpt-3.5-turbo") ELSE model

\* max_tokens = data.get('max_tokens', 1000), replaced when no int in 1..4000
ValidatedMaxTokens(data) ==
    LET max_tokens == Get(data, "max_tokens", JInt(DefaultMaxTokens))
    IN IF ~IsInt(max_tokens) THEN JInt(DefaultMaxTokens)
       ELSE IF NumX10(max_tokens) < 10 \/ NumX10(max_tokens) > MaxMaxTokens * 10
            THEN JInt(DefaultMaxTokens)
       ELSE max_tokens

\* temperature = data.get('temperature', 0.7), replaced when no number in 0..2
ValidatedTemperature(data) ==
    LET temperature == Get(data, "temperature", JFloat(DefaultTemperatureX10))
    IN IF ~IsNumber(temperature) THEN JFloat(DefaultTemperatureX10)
       ELSE IF NumX10(temperature) < 0 \/ NumX10(temperature) > MaxTemperatureX10
            THEN JFloat(DefaultTemperatureX10)
       ELSE temperature

\* Mutant of PromptTooLong: the bound is exclusive
PromptTooLong_Ge(prompt) == StrLen(prompt) >= MaxPromptLen

\* if len(prompt) > 4000
PromptTooLong(prompt) == StrLen(prompt) > MaxPromptLen

\* The arguments of openai_client.chat.completions.create
CompletionCall(data, prompt) ==
    [model |-> ValidatedModel(data),
     messages |-> << [role |-> "system", content |-> Name("flashcard assistant")],
                     [role |-> "user", content |-> prompt] >>,
     max_tokens |-> ValidatedMaxTokens(data),
     temperature |-> ValidatedTemperature(data)]

\* Mutant of WithPrompt: the prompt is not stripped before the emptiness check
WithPrompt_NoStrip(data, prompt) ==
    IF ~Truthy(prompt) THEN Return(Failure(400, "Prompt cannot be empty"))
    ELSE IF prompt.ty # "str" THEN Raise("AttributeError")
    ELSE IF PromptTooLong(prompt)
         THEN Return(Failure(400, "Prompt too long (max 4000 characters)"))
    ELSE Await(CompletionCall(data, prompt))

\* Mutant of WithPrompt: the length is checked after the outbound call is made
WithPrompt_CallFirst(data, prompt) ==
    IF ~Truthy(prompt) THEN Return(Failure(400, "Prompt cannot be empty"))
    ELSE IF prompt.ty # "str" THEN Raise("AttributeError")
    ELSE IF ~Truthy(Strip(prompt))
         THEN Return(Failure(400, "Prompt cannot be empty"))
    ELSE IF PromptTooLong(prompt)
         THEN [next |-> "return", issued |-> <<CompletionCall(data, prompt)>>,
               resp |-> Failure(400, "Prompt too long (max 4000 characters)")]
    ELSE Await(CompletionCall(data, prompt))

\* From the prompt on: the emptiness check, the length check and the outbound
\* call (the optional parameters, read in between, cannot fail: CompletionCall)
WithPrompt(data, prompt) ==
    IF ~Truthy(prompt) THEN Return(Failure(400, "Prompt cannot be empty"))
    ELSE IF prompt.ty # "str" THEN Raise("AttributeError")
    ELSE IF ~Truthy(Strip(prompt))
         THEN Return(Failure(400, "Prompt cannot be empty"))
    ELSE IF PromptTooLong(prompt)
         THEN Return(Failure(400, "Prompt too long (max 4000 characters)"))
    ELSE Await(CompletionCall(data, prompt))

RECURSIVE FirstUserMessage(_, _)
\* The loop over data['messages']: stops at the first message whose role is
\* 'user'; msg.get raises AttributeError on a message that is no dict
FirstUserMessage(msgs, i) ==
    IF i > Len(msgs) THEN [raised |-> FALSE, value |-> JNull]
    ELSE LET msg == msgs[i]
         IN IF msg.ty # "obj"
            THEN [raised |-> TRUE, value |-> JNull]
            ELSE IF msg.role = Name("user")
                 THEN [raised |-> FALSE,
                       value |-> IF msg.content # Absent THEN msg.content
                                 ELSE IF msg.prompt # Absent THEN msg.prompt
                                 ELSE JNull]
            ELSE FirstUserMessage(msgs, i + 1)

\* The messages format: {"messages": [{"role": "user", "content": "text"}]}
FromMessages(data) ==
    LET sel == FirstUserMessage(data.messages.items, 1)
    IN IF sel.raised THEN Raise("AttributeError")
       ELSE IF ~Truthy(sel.value)
            THEN Return(Failure(400, "No user message found with content or prompt"))
       ELSE WithPrompt(data, sel.value)

\* The body of the try block up to the outbound call
BeforeCall(r) ==
    IF ~r.is_json THEN Return(Failure(400, "Request must be JSON"))
    ELSE IF r.body = Malformed THEN Raise("BadRequest")
    ELSE LET data == r.body
         IN IF ~SupportsIn(data) THEN Raise("TypeError")
            ELSE IF Contains("prompt", data)
                 THEN IF data.ty # "obj" THEN Raise("TypeError")
                      ELSE WithPrompt(data, data.prompt)
            ELSE IF Contains("messages", data)
                 THEN IF data.ty # "obj" THEN Raise("TypeError")
                      ELSE IF IsList(data.messages) /\ Truthy(data.messages)
                           THEN FromMessages(data)
                      ELSE Return(Failure(400, "Either prompt or messages are required"))
            ELSE Return(Failure(400, "Either prompt or messages are required"))

\* Mutant of AfterCall: a rate-limited call is made a second time before the
\* error is raised
AfterCall_Retry(outcome) ==
    IF outcome.ty = "raise"
    THEN IF outcome.exc = "RateLimitError"
         THEN [next |-> "raise", issued |-> <<[retry_after |-> outcome.exc]>>,
               exc |-> outcome.exc]
         ELSE Raise(outcome.exc)
    ELSE IF Len(outcome.choices) = 0 THEN Raise("IndexError")
    ELSE LET generated_content == outcome.choices[1].content
         IN IF generated_content.ty # "str" THEN Raise("TypeError")
            ELSE IF outcome.usage = JNull THEN Raise("AttributeError")
            ELSE Return(Response(200, "generate_flashcards",
                                 [success |-> TRUE,
                                  content |-> generated_content,
                                  model |-> outcome.model,
                                  usage |-> outcome.usage]))

\* The body of the try block after the outbound call: it raised, or returned a
\* completion whose fields are read into the response
AfterCall(outcome) ==
    IF outcome.ty = "raise" THEN Raise(outcome.exc)
    ELSE IF Len(outcome.choices) = 0 THEN Raise("IndexError")
    ELSE LET generated_content == outcome.choices[1].content
         IN IF generated_content.ty # "str" THEN Raise("TypeError")
            ELSE IF outcome.usage = JNull THEN Raise("AttributeError")
            ELSE Return(Response(200, "generate_flashcards",
                                 [success |-> TRUE,
                                  content |-> generated_content,
                                  model |-> outcome.model,
                                  usage |-> outcome.usage]))

\* try ... except: a raise inside the view is answered by the first matching
\* except clause; one that no clause matches leaves the view
Guarded(step) ==
    IF step.next # "raise" THEN step
    ELSE IF Caught(step.exc)
         THEN [next |-> "return", issued |-> step.issued, resp |-> Catch(step.exc)]
    ELSE [next |-> "return", issued |-> step.issued, resp |-> Unhandled(step.exc)]

\* generate_flashcards up to its outbound call
generate_flashcards(r) == Guarded(BeforeCall(r))

\* generate_flashcards from the return of its outbound call
generate_flashcards_resume(outcome) == Guarded(AfterCall(outcome))

\* health_check
health_check ==
    Response(200, "health_check",
             [status |-> "healthy", timestamp |-> "isoformat",
              service |-> "flashcard-backend"])

----------------------------------------------------------------------------
(* Routing: the url map built by the @app.route decorators *)

\* The methods as the decorators list them, with nothing added
Allowed_AsDeclared ==
    [health |-> {"GET"}, generate |-> {"POST"}, static |-> {"GET"}]

\* The methods each rule accepts: Flask adds HEAD to a GET rule and OPTIONS to
\* every rule. Flask(__name__) itself adds the rule /static/<path:filename>.
Allowed ==
    [health |-> {"GET", "HEAD", "OPTIONS"}, generate |-> {"POST", "OPTIONS"},
     static |-> {"GET", "HEAD", "OPTIONS"}]

\* Paths that match /static/<path:filename>
StaticPaths == {"/static/app.js"}

Endpoint(path) ==
    CASE path = "/health" -> "health"
      [] path = "/generate" -> "generate"
      [] path \in StaticPaths -> "static"
      [] OTHER -> "none"

\* Flask's automatic answer to OPTIONS: 200, empty, with an Allow header
options_response(ep) == Response(200, "flask_options", [allow |-> Allowed[ep]])

\* The application answering request r, up to the first outbound call
Dispatch(r) ==
    LET ep == Endpoint(r.path)
    IN IF ep = "none" THEN Return(not_found)
       ELSE IF r.method \notin Allowed[ep] THEN Return(method_not_allowed)
       ELSE IF r.method = "OPTIONS" THEN Return(options_response(ep))
       ELSE IF ep = "health" THEN Return(health_check)
       \* send_static_file finds no file (there is no static folder) and raises
       \* NotFound, which the 404 handler answers
       ELSE IF ep = "static" THEN Return(not_found)
       ELSE generate_flashcards(r)

----------------------------------------------------------------------------
(* Inputs *)

Request(method, path, is_json, body) ==
    [method |-> method, path |-> path, is_json |-> is_json, body |-> body]

NoRequest == Request("none", "none", FALSE, Malformed)

Word == Text(0, 1, 0)

Texts ==
    {Text(0, 0, 0), Text(2, 0, 0), Word, Text(1, 1, 1),
     Text(0, MaxPromptLen, 0), Text(1, MaxPromptLen - 1, 0),
     Text(0, MaxPromptLen + 1, 0), Text(0, MaxPromptLen - 1, 2),
     Text(MaxPromptLen + 1, 0, 0)}

PromptValues == Texts \cup {JNull, JInt(0), JInt(5), JArr(0), JArr(1)}

MessageValues ==
    {JInt(5),
     Msg(Name("system"), Word, Absent),
     Msg(Name("user"), Word, Absent),
     Msg(Name("user"), Absent, Word),
     Msg(Name("user"), Absent, Absent),
     Msg(Name("user"), Text(0, 0, 0), Word),
     Msg(Name("user"), Text(2, 0, 0), Absent),
     Msg(Name("user"), JInt(5), Absent),
     Msg(Name("user"), Text(0, MaxPromptLen + 1, 0), Absent)}

MessageLists ==
    UNION {[1..n -> MessageValues] : n \in 0..MaxMsgs}

MessagesValues == {JNull, Name("hello")} \cup {JList(l) : l \in MessageLists}

ModelValues ==
    {Name("gpt-3.5-turbo"), Name("gpt-4"), Name("gpt-4-turbo-preview"),
     Name("gpt-3.5-turbo-16k"), Name("llama-3"), JNull, JInt(4)}

MaxTokensValues ==
    {JInt(1500), JInt(0), JInt(1), JInt(MaxMaxTokens), JInt(MaxMaxTokens + 1),
     JInt(-5), JFloat(15000), JBool(TRUE), JBool(FALSE), Name("1500"), JNull}

TemperatureValues ==
    {JFloat(5), JFloat(0), JInt(0), JInt(1), JInt(2), JFloat(MaxTemperatureX10),
     JFloat(MaxTemperatureX10 + 1), JFloat(-1), JInt(3), JBool(TRUE),
     Name("hot"), JNull}

\* The optional parameters of a body: none, one of them, or the three of the
\* custom-parameters request
Options ==
    {<<Absent, Absent, Absent>>, <<Name("gpt-4"), JInt(1500), JFloat(5)>>}
    \cup {<<m, Absent, Absent>> : m \in ModelValues}
    \cup {<<Absent, k, Absent>> : k \in MaxTokensValues}
    \cup {<<Absent, Absent, t>> : t \in TemperatureValues}

\* The optional parameters sent with the messages format
FewOptions ==
    {<<Absent, Absent, Absent>>, <<Name("gpt-4"), JInt(1500), JFloat(5)>>,
     <<Name("llama-3"), JInt(0), JFloat(MaxTemperatureX10 + 1)>>}

\* Bodies in the simple format {"prompt": ...}, a messages list beside it or not
SimpleBodies ==
    {Body(p, m, o[1], o[2], o[3]) :
        p \in PromptValues,
        m \in {Absent, JList(<<Msg(Name("user"), Text(1, 1, 1), Absent)>>)},
        o \in Options}

\* Bodies without a prompt key: the messages format, or neither
MessagesBodies ==
    {Body(Absent, m, o[1], o[2], o[3]) :
        m \in MessagesValues \cup {Absent}, o \in FewOptions}

ObjectBodies == SimpleBodies \cup MessagesBodies

OtherBodies ==
    {Malformed, JNull, JInt(5), JBool(TRUE)}
    \cup {BodyStr(h) : h \in {{}, {"prompt"}, {"messages"}}}
    \cup {BodyList(h) : h \in {{}, {"prompt"}, {"messages"}}}

Methods == {"GET", "POST", "PUT", "DELETE", "HEAD", "OPTIONS"}

Paths == {"/health", "/generate", "/nonexistent"} \cup StaticPaths

\* The requests a client sends: POST /generate with a JSON content type and any
\* body, with another content type, and every other method and path
Requests ==
    {Request("POST", "/generate", TRUE, b) : b \in ObjectBodies \cup OtherBodies}
    \cup {Request("POST", "/generate", FALSE, b) :
             b \in {Malformed, Body(Word, Absent, Absent, Absent, Absent)}}
    \cup {Request(m, p, FALSE, Malformed) : m \in Methods, p \in Paths}

Usage == [prompt_tokens |-> 25, completion_tokens |-> 150, total_tokens |-> 175]

UpstreamErrors ==
    {"RateLimitError", "AuthenticationError", "BadRequestError", "APITimeoutError",
     "APIConnectionError", "InternalServerError", "OpenAIError", "RuntimeError"}

Completion(choices, model, usage) ==
    [ty |-> "completion", choices |-> choices, model |-> model, usage |-> usage]

\* What openai_client.chat.completions.create can do with a call: raise, return a
\* completion (under the requested model name or a dated snapshot of it), or
\* return one with no choice, no content or no usage
Outcomes(call) ==
    {[ty |-> "raise", exc |-> e] : e \in UpstreamErrors}
    \cup {Completion(<<[content |-> Name("Test flashcard content")]>>, m, Usage) :
             m \in {call.model, Name("gpt-3.5-turbo-0125")}}
    \cup {Completion(<<>>, call.model, Usage),
          Completion(<<[content |-> JNull]>>, call.model, Usage),
          Completion(<<[content |-> Name("Test flashcard content")]>>, call.model, JNull)}

----------------------------------------------------------------------------
(* The state machine: one request at a time, from its arrival to its       *)
(* response; nothing is kept from one request to the next.                 *)

Workers == 1..NumWorkers

\* A thread with no request: it holds nothing of the requests it served
IdleWorker ==
    [pc |-> "idle", req |-> NoRequest, calls |-> <<>>, outcomes |-> <<>>,
     resps |-> <<>>]

Init ==
    /\ pc = "idle"
    /\ req = NoRequest
    /\ calls = <<>>
    /\ outcomes = <<>>
    /\ resps = <<>>
    /\ workers = [w \in Workers |-> IdleWorker]

\* A request arrives and is served up to its response or its outbound call
Serve(r) ==
    /\ pc = "idle"
    /\ LET step == Dispatch(r)
       IN /\ req' = r
          /\ calls' = step.issued
          /\ outcomes' = <<>>
          /\ resps' = IF step.next = "return" THEN <<step.resp>> ELSE <<>>
          /\ pc' = IF step.next = "await" THEN "upstream" ELSE "done"
    /\ UNCHANGED workers

\* The outbound call returns or raises, and the view finishes
UpstreamReturns ==
    /\ pc = "upstream"
    /\ \E outcome \in Outcomes(calls[Len(calls)]) :
          LET step == generate_flashcards_resume(outcome)
          IN /\ calls' = calls \o step.issued
             /\ outcomes' = Append(outcomes, outcome)
             /\ resps' = resps \o <<step.resp>>
             /\ pc' = "done"
             /\ UNCHANGED <<req, workers>>

\* The response is sent and the worker is free again: nothing of the request
\* is kept
Close ==
    /\ pc = "done"
    /\ pc' = "idle"
    /\ req' = NoRequest
    /\ calls' = <<>>
    /\ outcomes' = <<>>
    /\ resps' = <<>>
    /\ UNCHANGED workers

Next ==
    \/ \E r \in Requests : Serve(r)
    \/ UpstreamReturns
    \/ Close

Spec == Init /\ [][Next]_vars

----------------------------------------------------------------------------
(* The threaded server: app.run serves each request in a thread of its own, *)
(* so requests overlap and their steps interleave. The module globals the   *)
(* threads share (app, logger, openai_client) are set once at import.       *)

\* The requests the threads are given: two that reach the outbound call with
\* different parameters, one refused by validation, a health check and one
\* refused by the router
ThreadRequests ==
    {Request("POST", "/generate", TRUE, Body(Word, Absent, Absent, Absent, Absent)),
     Request("POST", "/generate", TRUE,
             Body(Word, Absent, Name("gpt-4"), JInt(1500), JFloat(5))),
     Request("POST", "/generate", TRUE, Body(Absent, Absent, Absent, Absent, Absent)),
     Request("GET", "/health", FALSE, Absent),
     Request("POST", "/health", FALSE, Absent)}

\* `request` read in a thread designates the request of that thread
CurrentRequest_ProcessWide(w) ==
    workers[CHOOSE v \in Workers : workers[v].pc = "received"].req

CurrentRequest(w) == workers[w].req

\* The server hands a request to a free thread
Accept(w, r) ==
    /\ workers[w].pc = "idle"
    /\ workers' = [workers EXCEPT ![w] = [IdleWorker EXCEPT !.pc = "received", !.req = r]]
    /\ UNCHANGED <<pc, req, calls, outcomes, resps>>

\* The thread routes its request and runs the view up to its response or its
\* outbound call
Handle(w) ==
    /\ workers[w].pc = "received"
    /\ LET step == Dispatch(CurrentRequest(w))
       IN workers' = [workers EXCEPT
              ![w].calls = step.issued,
              ![w].resps = IF step.next = "return" THEN <<step.resp>> ELSE <<>>,
              ![w].pc = IF step.next = "await" THEN "upstream" ELSE "done"]
    /\ UNCHANGED <<pc, req, calls, outcomes, resps>>

\* The outbound call of a thread returns or raises, and its view finishes
Resume(w) ==
    /\ workers[w].pc = "upstream"
    /\ \E outcome \in Outcomes(workers[w].calls[Len(workers[w].calls)]) :
          LET step == generate_flashcards_resume(outcome)
          IN workers' = [workers EXCEPT
                 ![w].calls = @ \o step.issued,
                 ![w].outcomes = Append(@, outcome),
                 ![w].resps = @ \o <<step.resp>>,
                 ![w].pc = "done"]
    /\ UNCHANGED <<pc, req, calls, outcomes, resps>>

\* The response is sent and the thread is free again
Finish(w) ==
    /\ workers[w].pc = "done"
    /\ workers' = [workers EXCEPT ![w] = IdleWorker]
    /\ UNCHANGED <<pc, req, calls, outcomes, resps>>

ThreadedNext ==
    \/ \E w \in Workers, r \in ThreadRequests : Accept(w, r)
    \/ \E w \in Workers : Handle(w)
    \/ \E w \in Workers : Resume(w)
    \/ \E w \in Workers : Finish(w)

ThreadedSpec == Init /\ [][ThreadedNext]_vars

----------------------------------------------------------------------------
(* Properties *)

\* The request being served is a POST to /generate
IsGenerate == req.method = "POST" /\ req.path = "/generate"

\* The request being served is a POST to /generate whose body is a JSON object
IsGenerateObject == IsGenerate /\ req.is_json /\ req.body.ty = "obj"

\* The response of the finished request
TheResponse == resps[1]

\* The response is the given failure of the /generate view
IsFailure(r, st, msg) ==
    /\ r.status = st
    /\ r.by = "generate_flashcards"
    /\ DOMAIN r.body = {"success", "error"}
    /\ r.body.success = FALSE
    /\ r.body.error = msg

\* The response is a validation error: 400, success false, an error string
IsValidationError(r) ==
    /\ r.status = 400
    /\ DOMAIN r.body = {"success", "error"}
    /\ r.body.success = FALSE
    /\ r.body.error # ""

\* The error strings of the validation failures
ValidationMessages ==
    {"Request must be JSON", "Either prompt or messages are required",
     "No user message found with content or prompt", "Prompt cannot be empty",
     "Prompt too long (max 4000 characters)"}

\* A free-text string that is empty after trimming
BlankText(v) == v.ty = "str" /\ v.core = 0

\* A free-text string that is not empty after trimming
SolidText(v) == v.ty = "str" /\ v.core > 0

\* A body whose first message is a user message with a content
LeadsWithUserContent(b) ==
    /\ b.messages.ty = "arr"
    /\ Len(b.messages.items) > 0
    /\ b.messages.items[1].ty = "obj"
    /\ b.messages.items[1].role = Name("user")
    /\ b.messages.items[1].content # Absent

\* The prompt a JSON object body asks for: its `prompt`, or without one the
\* content of a leading user message
AskedPrompt(b) ==
    IF b.prompt # Absent THEN b.prompt
    ELSE IF LeadsWithUserContent(b) THEN b.messages.items[1].content
    ELSE JNull

\* The request being served is well-formed: a JSON object whose prompt is a
\* string, not empty after trimming, of at most 4000 characters
WellFormed ==
    /\ IsGenerateObject
    /\ SolidText(AskedPrompt(req.body))
    /\ StrLen(AskedPrompt(req.body)) <= MaxPromptLen

\* The finished outbound call raised an exception of class e
UpstreamRaised(e) ==
    /\ Len(outcomes) = 1
    /\ outcomes[1].ty = "raise"
    /\ outcomes[1].exc = e

\* C1 as stated, leaving aside the requests that end in an internal error:
\* every POST /generate whose JSON object body has no `prompt`, or whose prompt
\* is empty after trimming, is answered 400 with a validation error.
C1_MissingPromptIs400 ==
    (/\ pc # "idle"
     /\ IsGenerateObject
     /\ (req.body.prompt = Absent \/ BlankText(req.body.prompt))
     /\ ~(pc = "done" /\ TheResponse.status = 500))
    => pc = "done" /\ IsValidationError(TheResponse)

\* C1 amended: every POST /generate whose JSON object body has neither a
\* `prompt` nor a non-empty `messages` list, or whose `prompt` is a string that
\* is empty after trimming, is answered 400 with a validation error, and no
\* outbound call is made.
C1_NoPromptNoMessagesIs400 ==
    (/\ pc # "idle"
     /\ IsGenerateObject
     /\ \/ /\ req.body.prompt = Absent
           /\ ~(IsList(req.body.messages) /\ Truthy(req.body.messages))
        \/ BlankText(req.body.prompt))
    => /\ pc = "done"
       /\ IsValidationError(TheResponse)
       /\ TheResponse.body.error \in ValidationMessages
       /\ calls = <<>>

\* A whitespace-only prompt has been rejected
C1_Witness ==
    /\ pc = "done"
    /\ IsGenerateObject
    /\ BlankText(req.body.prompt)
    /\ StrLen(req.body.prompt) > 0
    /\ IsFailure(TheResponse, 400, "Prompt cannot be empty")

\* C2: a request to /generate that ends in a validation failure has made no
\* outbound call at any point.
C2_ValidationBeforeCall ==
    (/\ pc = "done"
     /\ IsGenerate
     /\ TheResponse.status = 400
     /\ "error" \in DOMAIN TheResponse.body
     /\ TheResponse.body.error \in ValidationMessages)
    => calls = <<>> /\ outcomes = <<>>

\* A prompt has been rejected for its length, without an outbound call
C2_Witness ==
    /\ pc = "done"
    /\ IsGenerate
    /\ IsFailure(TheResponse, 400, "Prompt too long (max 4000 characters)")
    /\ calls = <<>>

\* C3: a well-formed request to /generate makes exactly one outbound call,
\* whatever the call returns or raises; no request makes a second one.
C3_ExactlyOneCall ==
    /\ (pc # "idle" /\ WellFormed) => Len(calls) = 1
    /\ pc = "upstream" => Len(calls) = 1 /\ outcomes = <<>> /\ resps = <<>>
    /\ pc = "done" => Len(calls) <= 1 /\ Len(outcomes) = Len(calls)

\* A rate-limited request has finished with its single call
C3_Witness ==
    /\ pc = "done"
    /\ WellFormed
    /\ UpstreamRaised("RateLimitError")
    /\ Len(calls) = 1
    /\ TheResponse.status = 429

\* C4: when the outbound call fails, a rate limit is answered 429 with an error
\* naming the rate limit, an authentication rejection 401, a bad-request
\* rejection 400, each with success false.
C4_ClassifiedFailures ==
    pc = "done" =>
        /\ UpstreamRaised("RateLimitError") =>
               IsFailure(TheResponse, 429, "Rate limit exceeded. Please try again later.")
        /\ UpstreamRaised("AuthenticationError") =>
               IsFailure(TheResponse, 401, "Authentication failed")
        /\ UpstreamRaised("BadRequestError") =>
               IsFailure(TheResponse, 400, "Invalid request to OpenAI API")

\* An authentication rejection has been answered 401
C4_Witness ==
    /\ pc = "done"
    /\ UpstreamRaised("AuthenticationError")
    /\ TheResponse.status = 401

\* C5 as stated: an upstream timeout is answered 504, an upstream transport
\* error 502, and only a failure that fits no other class 500.
C5_TimeoutIs504TransportIs502 ==
    pc = "done" =>
        /\ UpstreamRaised("APITimeoutError") => TheResponse.status = 504
        /\ UpstreamRaised("APIConnectionError") => TheResponse.status = 502
        /\ (Len(outcomes) = 1 /\ outcomes[1].ty = "raise" /\ TheResponse.status = 500)
               => outcomes[1].exc \notin {"APITimeoutError", "APIConnectionError"}

\* C5 amended: an upstream timeout and an upstream transport error are both
\* answered 500 'OpenAI API error', like every OpenAI error that is no rate
\* limit, authentication or bad-request rejection; a failure that is no OpenAI
\* error is answered 500 'Internal server error'; no response is 504 or 502.
C5_TimeoutAndTransportAre500 ==
    pc = "done" =>
        /\ TheResponse.status \notin {502, 504}
        /\ UpstreamRaised("APITimeoutError") =>
               IsFailure(TheResponse, 500, "OpenAI API error")
        /\ UpstreamRaised("APIConnectionError") =>
               IsFailure(TheResponse, 500, "OpenAI API error")
        /\ UpstreamRaised("InternalServerError") =>
               IsFailure(TheResponse, 500, "OpenAI API error")
        /\ UpstreamRaised("RuntimeError") =>
               IsFailure(TheResponse, 500, "Internal server error")

\* An upstream timeout has been answered 500
C5_Witness ==
    /\ pc = "done"
    /\ UpstreamRaised("APITimeoutError")
    /\ TheResponse.status = 500

\* C6: every request to /generate ends with exactly one response, built by the
\* view itself whatever the body and whatever the outbound call does; a generic
\* OpenAI error is answered 500 'OpenAI API error', and an exception that is no
\* OpenAI error (raised by the call, or by reading a malformed completion)
\* 500 'Internal server error'.
C6_NothingPropagates ==
    (pc = "done" /\ IsGenerate) =>
        /\ Len(resps) = 1
        /\ TheResponse.by = "generate_flashcards"
        /\ UpstreamRaised("OpenAIError") =>
               IsFailure(TheResponse, 500, "OpenAI API error")
        /\ UpstreamRaised("RuntimeError") =>
               IsFailure(TheResponse, 500, "Internal server error")
        /\ (/\ Len(outcomes) = 1
            /\ outcomes[1].ty = "completion"
            /\ \/ outcomes[1].choices = <<>>
               \/ outcomes[1].usage = JNull
               \/ outcomes[1].choices[1].content = JNull)
           => IsFailure(TheResponse, 500, "Internal server error")

\* A completion without choices has been answered by the view, as a 500
C6_Witness ==
    /\ pc = "done"
    /\ IsGenerate
    /\ Len(outcomes) = 1
    /\ outcomes[1].ty = "completion"
    /\ outcomes[1].choices = <<>>
    /\ IsFailure(TheResponse, 500, "Internal server error")

\* The user message of the outbound call
SentPrompt == calls[1].messages[2].content

\* C7 as stated: every prompt string longer than 4000 characters is answered
\* 400 'Prompt too long (max 4000 characters)'.
C7_LongPromptIsTooLong ==
    (/\ pc = "done"
     /\ IsGenerateObject
     /\ AskedPrompt(req.body).ty = "str"
     /\ StrLen(AskedPrompt(req.body)) > MaxPromptLen)
    => IsFailure(TheResponse, 400, "Prompt too long (max 4000 characters)")

\* C7 amended: every prompt string longer than 4000 characters that is not
\* empty after trimming is answered 400 'Prompt too long (max 4000 characters)'
\* without an outbound call; a prompt of at most 4000 characters that is not
\* empty after trimming is never rejected for its length and is sent upstream
\* as it came, untrimmed: the bound is 4000 inclusive and counts the
\* surrounding whitespace.
C7_LengthBound ==
    (/\ pc # "idle"
     /\ IsGenerateObject
     /\ SolidText(AskedPrompt(req.body)))
    => IF StrLen(AskedPrompt(req.body)) > MaxPromptLen
       THEN /\ pc = "done"
            /\ IsFailure(TheResponse, 400, "Prompt too long (max 4000 characters)")
            /\ calls = <<>>
       ELSE /\ Len(calls) = 1
            /\ SentPrompt = AskedPrompt(req.body)
            /\ StrLen(SentPrompt) <= MaxPromptLen
            /\ pc = "done" =>
                   ~IsFailure(TheResponse, 400, "Prompt too long (max 4000 characters)")

\* A prompt of 4001 characters, 3999 of them after trimming, has been rejected
\* for its length
C7_Witness ==
    /\ pc = "done"
    /\ IsGenerateObject
    /\ SolidText(AskedPrompt(req.body))
    /\ StrLen(AskedPrompt(req.body)) = MaxPromptLen + 1
    /\ StrLen(Strip(AskedPrompt(req.body))) < MaxPromptLen
    /\ IsFailure(TheResponse, 400, "Prompt too long (max 4000 characters)")

\* C8: every POST /generate whose input is not JSON (by its content type, or
\* because its body does not parse) is answered 400 'Request must be JSON' with
\* success false.
C8_NotJsonIs400 ==
    (/\ pc = "done"
     /\ IsGenerate
     /\ (~req.is_json \/ req.body = Malformed))
    => IsFailure(TheResponse, 400, "Request must be JSON")

\* C9 as stated: every error response, on any route, carries success false and
\* an error string.
C9_EveryErrorHasSuccessFalse ==
    (pc = "done" /\ TheResponse.status >= 400)
    => /\ "success" \in DOMAIN TheResponse.body
       /\ TheResponse.body.success = FALSE
       /\ "error" \in DOMAIN TheResponse.body

\* C9 amended: every error response carries a non-empty error string; those of
\* the /generate view (validation failure, upstream failure, internal error)
\* carry success false with it, those for an unknown route (404) and a wrong
\* method (405) carry the error string alone.
C9_ErrorBodies ==
    (pc = "done" /\ TheResponse.status >= 400)
    => /\ "error" \in DOMAIN TheResponse.body
       /\ TheResponse.body.error # ""
       /\ TheResponse.by \in {"generate_flashcards", "not_found", "method_not_allowed"}
       /\ TheResponse.by = "generate_flashcards"
              => /\ DOMAIN TheResponse.body = {"success", "error"}
                 /\ TheResponse.body.success = FALSE
       /\ TheResponse.by \in {"not_found", "method_not_allowed"}
              => /\ DOMAIN TheResponse.body = {"error"}
                 /\ TheResponse.status \in {404, 405}

\* An unknown route has been answered 404 without a success key
C9_Witness ==
    /\ pc = "done"
    /\ TheResponse.status = 404
    /\ "success" \notin DOMAIN TheResponse.body

\* The allow-list of C10
AllowList ==
    {Name("gpt-3.5-turbo"), Name("gpt-4"), Name("gpt-4-turbo-preview"),
     Name("gpt-3.5-turbo-16k")}

\* C10: the model of the outbound call is always allow-listed: an allow-listed
\* `model` is passed unchanged, an absent or unknown one of any type is replaced
\* by 'gpt-3.5-turbo', and a well-formed request makes its call whatever its
\* `model` is.
C10_ModelAllowList ==
    /\ (pc # "idle" /\ WellFormed) => Len(calls) = 1
    /\ Len(calls) >= 1 =>
           /\ calls[1].model \in AllowList
           /\ calls[1].model =
                  IF req.body.model \in AllowList THEN req.body.model
                  ELSE Name("gpt-3.5-turbo")

\* A request for an unknown model has been sent upstream with the default model
C10_Witness ==
    /\ pc = "upstream"
    /\ req.body.model = Name("llama-3")
    /\ Len(calls) = 1
    /\ calls[1].model = Name("gpt-3.5-turbo")

\* C11: the max_tokens of the outbound call is the request's `max_tokens` when
\* that is an integer in 1..4000, and the default 1000 for every other value
\* (absent, out of range, or no integer: a boolean, a float, a string, null).
C11_MaxTokensIntegerOrDefault ==
    Len(calls) >= 1 =>
        calls[1].max_tokens =
            IF /\ req.body.max_tokens.ty = "int"
               /\ req.body.max_tokens.n >= 1
               /\ req.body.max_tokens.n <= MaxMaxTokens
            THEN req.body.max_tokens
            ELSE JInt(DefaultMaxTokens)

\* C12: the temperature of the outbound call is the request's `temperature`
\* when that is a number in 0..2, bounds included, and the default 0.7 for every
\* other value (absent, below 0, above 2, or no number: a boolean, a string,
\* null).
C12_TemperatureNumberOrDefault ==
    Len(calls) >= 1 =>
        calls[1].temperature =
            IF /\ req.body.temperature.ty \in {"int", "float"}
               /\ NumX10(req.body.temperature) >= 0
               /\ NumX10(req.body.temperature) <= MaxTemperatureX10
            THEN req.body.temperature
            ELSE JFloat(DefaultTemperatureX10)

\* C13: on every successful POST /generate the `model` of the response is the
\* model that was sent in the outbound call (the requested model when it is
\* allow-listed, 'gpt-3.5-turbo' when none was requested).
C13_ResponseModelIsModelUsed ==
    (pc = "done" /\ IsGenerate /\ TheResponse.status = 200) =>
        TheResponse.body.model = calls[1].model

\* The response a request gets when it is the only one the server handles
HandledAlone(r, outs) ==
    LET step == Dispatch(r)
    IN IF step.next = "return" THEN step.resp
       ELSE generate_flashcards_resume(outs[1]).resp

C15_Routing ==
    pc = "done" =>
        /\ req.path \notin {"/health", "/generate"} => TheResponse = not_found
        /\ (req.path = "/health" /\ req.method # "GET") =>
              TheResponse = method_not_allowed
        /\ (req.path = "/generate" /\ req.method # "POST") =>
              TheResponse = method_not_allowed
        /\ (req.path = "/health" /\ req.method = "GET") =>
              /\ TheResponse.status = 200
              /\ TheResponse.body.status = "healthy"
              /\ TheResponse.body.service = "flashcard-backend"

\* C15, amended: the rules are /health, /generate and Flask's own
\* /static/<path>. A path that matches no rule gets 404 'Endpoint not found',
\* and so does GET or HEAD of a static path, no static file existing. OPTIONS on
\* a rule's path and HEAD on /health get 200. Every other method a rule does
\* not accept (anything but GET, HEAD, OPTIONS on /health and on a static path,
\* anything but POST, OPTIONS on /generate) gets 405 'Method not allowed'.
\* GET /health gets 200 with status 'healthy' and service 'flashcard-backend',
\* and POST /generate is answered by the view.
C15_RoutingWithAutomaticMethods ==
    pc = "done" =>
        /\ req.path \notin {"/health", "/generate"} \cup StaticPaths =>
              TheResponse = not_found
        /\ (req.path \in StaticPaths /\ req.method \in {"GET", "HEAD"}) =>
              TheResponse = not_found
        /\ (req.path \in {"/health", "/generate"} \cup StaticPaths
            /\ req.method = "OPTIONS") =>
              TheResponse.status = 200 /\ TheResponse.by = "flask_options"
        /\ (req.path = "/health" /\ req.method = "HEAD") =>
              TheResponse.status = 200 /\ TheResponse.by = "health_check"
        /\ (req.path \in {"/health"} \cup StaticPaths
            /\ req.method \notin {"GET", "HEAD", "OPTIONS"}) =>
              TheResponse = method_not_allowed
        /\ (req.path = "/generate" /\ req.method \notin {"POST", "OPTIONS"}) =>
              TheResponse = method_not_allowed
        /\ (req.path = "/health" /\ req.method = "GET") =>
              /\ TheResponse.status = 200
              /\ TheResponse.by = "health_check"
              /\ TheResponse.body.status = "healthy"
              /\ TheResponse.body.service = "flashcard-backend"
        /\ (req.path = "/generate" /\ req.method = "POST") =>
              TheResponse.by \notin {"not_found", "method_not_allowed", "flask_options"}

\* A HEAD request to /health has been answered 200 by the health check
C15_Witness ==
    /\ pc = "done"
    /\ req.path = "/health"
    /\ req.method = "HEAD"
    /\ TheResponse.status = 200
    /\ TheResponse.by = "health_check"

\* C16: a POST /generate whose JSON object body has no `prompt` (and, as in
\* the examples {} and {"invalid": "data"}, no `messages`) is answered 400 with
\* success false and the error message 'Prompt is required'.
C16_PromptIsRequired ==
    (/\ pc = "done"
     /\ IsGenerateObject
     /\ req.body.prompt = Absent
     /\ req.body.messages = Absent) =>
        IsFailure(TheResponse, 400, "Prompt is required")

\* The body being served has no `prompt` key and a non-empty `messages` list
IsMessagesFormat ==
    /\ IsGenerateObject
    /\ req.body.prompt = Absent
    /\ req.body.messages.ty = "arr"
    /\ Len(req.body.messages.items) > 0

\* Index of the first message whose role is 'user', 0 when there is none
FirstUserIndex(items) ==
    LET users == {i \in 1..Len(items) :
                     items[i].ty = "obj" /\ items[i].role = Name("user")}
    IN IF users = {} THEN 0
       ELSE CHOOSE i \in users : \A j \in users : i <= j

\* What a message gives as prompt: its content if that key is present, else
\* its prompt, else nothing
Yield(msg) ==
    IF msg.content # Absent THEN msg.content
    ELSE IF msg.prompt # Absent THEN msg.prompt
    ELSE JNull

\* The messages looked at before the selection ends are all JSON objects
MessageObjectsOnly(items) ==
    LET k == FirstUserIndex(items)
    IN \A i \in 1..(IF k = 0 THEN Len(items) ELSE k) : items[i].ty = "obj"

\* The request is handled with v as its prompt: v is what is sent upstream, and
\* when nothing is sent it is v that was refused (empty, too long, or no string)
HandledWithPrompt(v) ==
    /\ calls # <<>> => SentPrompt = v /\ SolidText(v) /\ StrLen(v) <= MaxPromptLen
    /\ (pc = "done" /\ calls = <<>>) =>
          \/ /\ ~Truthy(v) \/ BlankText(v)
             /\ IsFailure(TheResponse, 400, "Prompt cannot be empty")
          \/ /\ SolidText(v)
             /\ StrLen(v) > MaxPromptLen
             /\ IsFailure(TheResponse, 400, "Prompt too long (max 4000 characters)")
          \/ v.ty # "str" /\ Truthy(v) /\ TheResponse.status = 500

\* The selection the messages format makes, on the list `items`
SelectsFirstUserMessage(items) ==
    LET k == FirstUserIndex(items)
    IN IF k = 0 \/ ~Truthy(Yield(items[IF k = 0 THEN 1 ELSE k]))
       THEN /\ pc = "done"
            /\ calls = <<>>
            /\ IsFailure(TheResponse, 400,
                         "No user message found with content or prompt")
       ELSE HandledWithPrompt(Yield(items[k]))

\* C17: without a `prompt` key and with a non-empty `messages` list, the
\* prompt is taken from the first message whose role is 'user' (its content if
\* that key is present, else its prompt) and from no later one; when that
\* message gives no non-empty value, or no message has role 'user', the request
\* is answered 400. With a `prompt` key, `messages` is ignored.
C17_PromptFromFirstUserMessage ==
    pc # "idle" =>
        /\ IsMessagesFormat => SelectsFirstUserMessage(req.body.messages.items)
        /\ (IsGenerateObject /\ req.body.prompt # Absent) =>
              HandledWithPrompt(req.body.prompt)

\* C17 on lists whose messages, up to the first user message, are all JSON
\* objects: there the selection is as the claim says.
C17_AmongMessageObjects ==
    pc # "idle" =>
        /\ (IsMessagesFormat /\ MessageObjectsOnly(req.body.messages.items)) =>
              SelectsFirstUserMessage(req.body.messages.items)
        /\ (IsGenerateObject /\ req.body.prompt # Absent) =>
              HandledWithPrompt(req.body.prompt)

\* A request in the messages format whose first user message gives nothing has
\* been refused although a later user message carries a content
C17_LaterUserMessageNotExamined ==
    /\ pc = "done"
    /\ IsMessagesFormat
    /\ Len(req.body.messages.items) = 2
    /\ req.body.messages.items[1] = Msg(Name("user"), Absent, Absent)
    /\ req.body.messages.items[2] = Msg(Name("user"), Word, Absent)
    /\ TheResponse.status = 400

====
